---- MODULE Spec2Model ----
(***************************************************************************)
(* Model of the crediTask backend (FastAPI + SQLAlchemy):                  *)
(*   backend/app/api/v1/endpoints/{projects,tasks,notifications}.py        *)
(*   backend/app/models/*.py, backend/app/schemas/*.py                     *)
(*                                                                         *)
(* The committed database is three tables keyed by primary key.  A handler *)
(* is one action when it is checked sequentially; the handlers of the      *)
(* concurrency-sensitive paths (claim_task, create_task, delete_project)   *)
(* are also modelled step by step, one step per `await` on the database,   *)
(* each request working in its own session.                                *)
(***************************************************************************)
EXTENDS Integers, FiniteSets, Sequences, TLC

\* ---------------------------------------------------------------- bounds
MaxProjects == 2
MaxTasks == 2
MaxNotifs == 3
MaxReqs == 2
\* tasks created in one run of SpecOwnership
MaxOwnershipTasks == 1

\* ---------------------------------------------------------------- users
Clients == {"c1", "c2"}
Workers == {"w1", "w2"}
Users == Clients \cup Workers

\* User.role (models/user.py): 'client' or 'worker'
role(u) == IF u \in Clients THEN "client" ELSE "worker"

\* Python None / SQL NULL
None == "None"

ProjectIds == 1..MaxProjects
TaskIds == 1..MaxTasks
NotifIds == 1..MaxNotifs

VARIABLES
    projects,       \* table projects: id -> row
    tasks,          \* table tasks: id -> row
    notifications,  \* table notifications: id -> row
    uuids,          \* number of primary keys issued so far, per table
    resp,           \* the response of the last request handled
    sessions        \* the requests in flight (step-by-step handlers)

vars == <<projects, tasks, notifications, uuids, resp, sessions>>
store == <<projects, tasks, notifications>>

\* ---------------------------------------------------------------- helpers
\* HTTP status codes used by the handlers
OK == 200
BAD_REQUEST == 400
FORBIDDEN == 403
NOT_FOUND == 404
SERVER_ERROR == 500

\* mutant: the request is applied as dict() without exclude_unset, so a field
\* absent from the request is written as None
ApplyPatchUnsetAsNone(row, patch) ==
    [f \in DOMAIN row |->
        IF f \in DOMAIN patch THEN patch[f]
        ELSE IF f \in {"client_id", "project_id"} THEN row[f] ELSE None]

\* for field, value in update_data.items(): setattr(obj, field, value)
ApplyPatch(row, patch) ==
    [f \in DOMAIN row |-> IF f \in DOMAIN patch THEN patch[f] ELSE row[f]]

\* table with one row inserted or replaced
Put(table, id, row) ==
    [i \in (DOMAIN table) \cup {id} |-> IF i = id THEN row ELSE table[i]]

\* table with the rows of ids removed
Remove(table, ids) == [i \in (DOMAIN table) \ ids |-> table[i]]

\* the partial requests {field: value} over the given field -> values map
Patches(vals) ==
    UNION { { p \in [S -> UNION {vals[f] : f \in S}] :
                \A f \in S : p[f] \in vals[f] } : S \in SUBSET (DOMAIN vals) }

\* a request without a body
NoBody == [f \in {} |-> None]

\* a request (op, actor, target, body) and its response (code, rows, count)
Response(op, actor, target, body, code, rows, count) ==
    [op |-> op, actor |-> actor, target |-> target, body |-> body, code |-> code,
     rows |-> rows, count |-> count]

NoResponse == Response("none", None, 0, NoBody, 0, {}, 0)

\* query.offset(skip).limit(limit) over an unordered SELECT: any selection of
\* the right size
Page(rows, skip, limit) ==
    LET avail == IF Cardinality(rows) > skip THEN Cardinality(rows) - skip ELSE 0
        n == IF avail < limit THEN avail ELSE limit
    IN  { S \in SUBSET rows : Cardinality(S) = n }

\* ---------------------------------------------------------------- schema
\* NOT NULL columns (nullable=False) that a request can write
ProjectNotNull == {"title", "description", "budget"}
TaskNotNull == {"title", "payout"}
\* response_model fields that must not be None (ProjectResponse, TaskResponse)
ProjectResponseRequired == {"title", "description", "budget", "status"}
TaskResponseRequired == {"title", "payout", "status"}

\* Project(client_id=current_user.id, **project_data.dict()); status default "open"
NewProject(u, body) ==
    [client_id |-> u, title |-> body.title, description |-> body.description,
     tags |-> body.tags, budget |-> body.budget, status |-> "open"]

\* Task(**task_data.dict()); column defaults status "open", assignee_id NULL
NewTask(body) ==
    [project_id |-> body.project_id, title |-> body.title, payout |-> body.payout,
     status |-> "open", assignee_id |-> None]

\* flush of a row: NOT NULL constraints hold
RowValid(row, notnull) == \A f \in notnull : row[f] # None
\* response_model validation of the refreshed row
RowSerializable(row, required) == \A f \in required : row[f] # None

\* ---------------------------------------------------------------- inputs
\* ProjectCreate bodies (title, description, budget required; tags optional)
ProjectBodies ==
    { [title |-> "A", description |-> "d", tags |-> "[]", budget |-> "10"] }

\* TaskCreate bodies for a project id
TaskBodies(p) == { [project_id |-> p, title |-> "T", payout |-> "5"] }

\* TaskUpdate requests (dict(exclude_unset=True)): any subset of the fields,
\* an explicit null included
TaskUpdateValues ==
    [status |-> {"open", "submitted", None},
     assignee_id |-> {"w1", None},
     title |-> {"T2", None}]
TaskUpdates == Patches(TaskUpdateValues)

\* ---------------------------------------------------------------- projects.py
\* mutant: the role check is missing
create_project_result_any_role(u, body) ==
    [code |-> OK,
     projects |-> Put(projects, uuids.project + 1, NewProject(u, body)),
     id |-> uuids.project + 1]

\* create_project: role check, INSERT, commit
create_project_result(u, body) ==
    IF role(u) # "client"
    THEN [code |-> FORBIDDEN, projects |-> projects, id |-> 0]
    ELSE [code |-> OK,
          projects |-> Put(projects, uuids.project + 1, NewProject(u, body)),
          id |-> uuids.project + 1]

create_project(u, body) ==
    LET r == create_project_result(u, body) IN
    /\ r.code = OK => uuids.project < MaxProjects
    /\ projects' = r.projects
    /\ uuids' = IF r.code = OK THEN [uuids EXCEPT !.project = @ + 1] ELSE uuids
    /\ resp' = Response("create_project", u, r.id, body, r.code, {}, 0)
    /\ UNCHANGED <<tasks, notifications, sessions>>

\* get_projects: clients see their own projects, everyone else the open ones
get_projects_query(u) ==
    IF role(u) = "client"
    THEN { p \in DOMAIN projects : projects[p].client_id = u }
    ELSE { p \in DOMAIN projects : projects[p].status = "open" }

get_projects(u, skip, limit) ==
    /\ \E rows \in Page(get_projects_query(u), skip, limit) :
         resp' = Response("get_projects", u, 0, NoBody, OK, rows, 0)
    /\ UNCHANGED <<projects, tasks, notifications, uuids, sessions>>

\* mutant: the ownership check is applied to every role
get_project_code_owner_only(u, p) ==
    IF p \notin DOMAIN projects THEN NOT_FOUND
    ELSE IF projects[p].client_id # u THEN FORBIDDEN
    ELSE OK

\* get_project: lookup, then the client ownership check
get_project_code(u, p) ==
    IF p \notin DOMAIN projects THEN NOT_FOUND
    ELSE IF role(u) = "client" /\ projects[p].client_id # u THEN FORBIDDEN
    ELSE OK

get_project(u, p) ==
    /\ resp' = Response("get_project", u, p, NoBody, get_project_code(u, p),
                        IF get_project_code(u, p) = OK THEN {p} ELSE {}, 0)
    /\ UNCHANGED <<projects, tasks, notifications, uuids, sessions>>

\* update_project: lookup, ownership check, setattr loop, commit, refresh
update_project_result(u, p, patch) ==
    IF p \notin DOMAIN projects
    THEN [code |-> NOT_FOUND, projects |-> projects]
    ELSE IF projects[p].client_id # u
    THEN [code |-> FORBIDDEN, projects |-> projects]
    ELSE LET row == ApplyPatch(projects[p], patch) IN
         IF ~RowValid(row, ProjectNotNull)
         THEN [code |-> SERVER_ERROR, projects |-> projects]
         ELSE [code |-> IF RowSerializable(row, ProjectResponseRequired)
                        THEN OK ELSE SERVER_ERROR,
               projects |-> Put(projects, p, row)]

update_project(u, p, patch) ==
    LET r == update_project_result(u, p, patch) IN
    /\ projects' = r.projects
    /\ resp' = Response("update_project", u, p, patch, r.code, {}, 0)
    /\ UNCHANGED <<tasks, notifications, uuids, sessions>>

\* Project.tasks, cascade="all, delete-orphan": the tasks deleted with project p
CascadeTasks(table, p) == { t \in DOMAIN table : table[t].project_id = p }

\* delete_project: lookup, ownership check, DELETE with cascade, commit
delete_project_result(u, p) ==
    IF p \notin DOMAIN projects
    THEN [code |-> NOT_FOUND, projects |-> projects, tasks |-> tasks]
    ELSE IF projects[p].client_id # u
    THEN [code |-> FORBIDDEN, projects |-> projects, tasks |-> tasks]
    ELSE [code |-> OK, projects |-> Remove(projects, {p}),
          tasks |-> Remove(tasks, CascadeTasks(tasks, p))]

delete_project(u, p) ==
    LET r == delete_project_result(u, p) IN
    /\ projects' = r.projects
    /\ tasks' = r.tasks
    /\ resp' = Response("delete_project", u, p, NoBody, r.code, {}, 0)
    /\ UNCHANGED <<notifications, uuids, sessions>>

\* ---------------------------------------------------------------- tasks.py
\* create_task: project lookup, ownership check, INSERT, commit
create_task_result(u, body) ==
    IF body.project_id \notin DOMAIN projects
    THEN [code |-> NOT_FOUND, tasks |-> tasks, id |-> 0]
    ELSE IF projects[body.project_id].client_id # u
    THEN [code |-> FORBIDDEN, tasks |-> tasks, id |-> 0]
    ELSE [code |-> OK, tasks |-> Put(tasks, uuids.task + 1, NewTask(body)),
          id |-> uuids.task + 1]

create_task(u, body) ==
    LET r == create_task_result(u, body) IN
    /\ r.code = OK => uuids.task < MaxTasks
    /\ tasks' = r.tasks
    /\ uuids' = IF r.code = OK THEN [uuids EXCEPT !.task = @ + 1] ELSE uuids
    /\ resp' = Response("create_task", u, r.id, body, r.code, {}, 0)
    /\ UNCHANGED <<projects, notifications, sessions>>

\* mutant: the worker branch of the role filter is missing
get_tasks_visible_no_worker_filter(u) ==
    IF role(u) = "client"
    THEN { t \in DOMAIN tasks :
             tasks[t].project_id \in
               { p \in DOMAIN projects : projects[p].client_id = u } }
    ELSE DOMAIN tasks

\* get_tasks: the role filter of the task list
get_tasks_visible(u) ==
    IF role(u) = "client"
    THEN { t \in DOMAIN tasks :
             tasks[t].project_id \in
               { p \in DOMAIN projects : projects[p].client_id = u } }
    ELSE { t \in DOMAIN tasks :
             tasks[t].status = "open" /\ tasks[t].assignee_id = None }

\* get_tasks: role filter, then the project_id and status query parameters
get_tasks_query(u, project_id, status) ==
    { t \in get_tasks_visible(u) :
        /\ project_id # 0 => tasks[t].project_id = project_id
        /\ status # None => tasks[t].status = status }

get_tasks(u, project_id, status, skip, limit) ==
    /\ \E rows \in Page(get_tasks_query(u, project_id, status), skip, limit) :
         resp' = Response("get_tasks", u, 0, NoBody, OK, rows, 0)
    /\ UNCHANGED <<projects, tasks, notifications, uuids, sessions>>

\* mutant: the assignee check of the worker branch is missing
update_task_denied_clients_only(u, t) ==
    role(u) = "client" /\ projects[tasks[t].project_id].client_id # u

\* update_task: the permission check
update_task_denied(u, t) ==
    \/ role(u) = "client" /\ projects[tasks[t].project_id].client_id # u
    \/ role(u) = "worker" /\ tasks[t].assignee_id # u

\* update_task: lookup, permission check, setattr loop, commit, refresh
update_task_result(u, t, patch) ==
    IF t \notin DOMAIN tasks
    THEN [code |-> NOT_FOUND, tasks |-> tasks]
    ELSE IF update_task_denied(u, t)
    THEN [code |-> FORBIDDEN, tasks |-> tasks]
    ELSE LET row == ApplyPatch(tasks[t], patch) IN
         IF ~RowValid(row, TaskNotNull)
         THEN [code |-> SERVER_ERROR, tasks |-> tasks]
         ELSE [code |-> IF RowSerializable(row, TaskResponseRequired)
                        THEN OK ELSE SERVER_ERROR,
               tasks |-> Put(tasks, t, row)]

update_task(u, t, patch) ==
    LET r == update_task_result(u, t, patch) IN
    /\ tasks' = r.tasks
    /\ resp' = Response("update_task", u, t, patch, r.code, {}, 0)
    /\ UNCHANGED <<projects, notifications, uuids, sessions>>

\* mutant: the precondition tests the status only
claim_task_available_status_only(row) == row.status = "open"

\* claim_task: the availability precondition
claim_task_available(row) == row.status = "open" /\ row.assignee_id = None

\* mutant: the status assignment is missing
claim_task_assign_no_status(row, u) == [row EXCEPT !.assignee_id = u]

\* claim_task: the two assignments before commit
claim_task_assign(row, u) == [row EXCEPT !.assignee_id = u, !.status = "assigned"]

\* claim_task: role check, lookup, precondition, assignment, commit
claim_task_result(u, t) ==
    IF role(u) # "worker"
    THEN [code |-> FORBIDDEN, tasks |-> tasks]
    ELSE IF t \notin DOMAIN tasks
    THEN [code |-> NOT_FOUND, tasks |-> tasks]
    ELSE IF ~claim_task_available(tasks[t])
    THEN [code |-> BAD_REQUEST, tasks |-> tasks]
    ELSE [code |-> OK, tasks |-> Put(tasks, t, claim_task_assign(tasks[t], u))]

claim_task(u, t) ==
    LET r == claim_task_result(u, t) IN
    /\ tasks' = r.tasks
    /\ resp' = Response("claim_task", u, t, NoBody, r.code, {}, 0)
    /\ UNCHANGED <<projects, notifications, uuids, sessions>>

\* mutant: the row is deleted before the ownership check raises
delete_task_result_delete_first(u, t) ==
    IF t \notin DOMAIN tasks
    THEN [code |-> NOT_FOUND, tasks |-> tasks]
    ELSE IF projects[tasks[t].project_id].client_id # u
    THEN [code |-> FORBIDDEN, tasks |-> Remove(tasks, {t})]
    ELSE [code |-> OK, tasks |-> Remove(tasks, {t})]

\* delete_task: lookup, ownership check, DELETE, commit
delete_task_result(u, t) ==
    IF t \notin DOMAIN tasks
    THEN [code |-> NOT_FOUND, tasks |-> tasks]
    ELSE IF projects[tasks[t].project_id].client_id # u
    THEN [code |-> FORBIDDEN, tasks |-> tasks]
    ELSE [code |-> OK, tasks |-> Remove(tasks, {t})]

delete_task(u, t) ==
    LET r == delete_task_result(u, t) IN
    /\ tasks' = r.tasks
    /\ resp' = Response("delete_task", u, t, NoBody, r.code, {}, 0)
    /\ UNCHANGED <<projects, notifications, uuids, sessions>>

\* get_my_tasks: workers only, the tasks assigned to the caller
get_my_tasks(u) ==
    /\ resp' = IF role(u) # "worker"
               THEN Response("get_my_tasks", u, 0, NoBody, FORBIDDEN, {}, 0)
               ELSE Response("get_my_tasks", u, 0, NoBody, OK,
                             { t \in DOMAIN tasks : tasks[t].assignee_id = u }, 0)
    /\ UNCHANGED <<projects, tasks, notifications, uuids, sessions>>

\* get_task: lookup, then the permission check
get_task_code(u, t) ==
    IF t \notin DOMAIN tasks THEN NOT_FOUND
    ELSE IF \/ role(u) = "client" /\ projects[tasks[t].project_id].client_id # u
            \/ /\ role(u) = "worker"
               /\ tasks[t].assignee_id # u
               /\ tasks[t].status # "open"
    THEN FORBIDDEN
    ELSE OK

get_task(u, t) ==
    /\ resp' = Response("get_task", u, t, NoBody, get_task_code(u, t),
                        IF get_task_code(u, t) = OK THEN {t} ELSE {}, 0)
    /\ UNCHANGED <<projects, tasks, notifications, uuids, sessions>>

\* ---------------------------------------------------------------- notifications.py
\* the caller's notifications, unread only when asked
get_notifications_query(u, unread_only) ==
    { n \in DOMAIN notifications :
        /\ notifications[n].user_id = u
        /\ unread_only => notifications[n].read = FALSE }

\* order_by(created_at.desc()).offset(skip).limit(limit)
NewestPage(rows, skip, limit) ==
    { n \in rows :
        LET newer == Cardinality({ m \in rows :
                       notifications[m].created_at > notifications[n].created_at })
        IN newer >= skip /\ newer < skip + limit }

get_notifications(u, skip, limit, unread_only) ==
    /\ resp' = Response("get_notifications", u, 0, NoBody, OK,
                        NewestPage(get_notifications_query(u, unread_only), skip, limit), 0)
    /\ UNCHANGED <<projects, tasks, notifications, uuids, sessions>>

\* mark_notification_read: lookup by id and owner, read := True, commit
mark_notification_read_result(u, n) ==
    IF n \notin DOMAIN notifications \/ notifications[n].user_id # u
    THEN [code |-> NOT_FOUND, notifications |-> notifications]
    ELSE [code |-> OK,
          notifications |-> Put(notifications, n, [notifications[n] EXCEPT !.read = TRUE])]

mark_notification_read(u, n) ==
    LET r == mark_notification_read_result(u, n) IN
    /\ notifications' = r.notifications
    /\ resp' = Response("mark_notification_read", u, n, NoBody, r.code, {}, 0)
    /\ UNCHANGED <<projects, tasks, uuids, sessions>>

\* mutant: the SELECT has no user_id condition
mark_all_selected_any_user(u) ==
    { n \in DOMAIN notifications : notifications[n].read = FALSE }

\* mark_all_notifications_read: the rows selected
mark_all_selected(u) ==
    { n \in DOMAIN notifications :
        notifications[n].user_id = u /\ notifications[n].read = FALSE }

\* mark_all_notifications_read: read := True on each selected row, one commit
mark_all_result(u) ==
    [count |-> Cardinality(mark_all_selected(u)),
     notifications |-> [n \in DOMAIN notifications |->
                          IF n \in mark_all_selected(u)
                          THEN [notifications[n] EXCEPT !.read = TRUE]
                          ELSE notifications[n]]]

mark_all_notifications_read(u) ==
    LET r == mark_all_result(u) IN
    /\ notifications' = r.notifications
    /\ resp' = Response("mark_all_notifications_read", u, 0, NoBody, OK, {}, r.count)
    /\ UNCHANGED <<projects, tasks, uuids, sessions>>

\* delete_notification: lookup by id and owner, DELETE, commit
delete_notification_result(u, n) ==
    IF n \notin DOMAIN notifications \/ notifications[n].user_id # u
    THEN [code |-> NOT_FOUND, notifications |-> notifications]
    ELSE [code |-> OK, notifications |-> Remove(notifications, {n})]

delete_notification(u, n) ==
    LET r == delete_notification_result(u, n) IN
    /\ notifications' = r.notifications
    /\ resp' = Response("delete_notification", u, n, NoBody, r.code, {}, 0)
    /\ UNCHANGED <<projects, tasks, uuids, sessions>>

\* ---------------------------------------------------------------- specifications
EmptyTable == [i \in {} |-> None]

\* every table over a subset of the ids
Tables(ids, rows) == UNION { [D -> rows] : D \in SUBSET ids }

MaxOf(S) == IF S = {} THEN 0 ELSE CHOOSE m \in S : \A x \in S : x <= m

\* a request that has not started
IdleSession ==
    [pc |-> "idle", op |-> "none", actor |-> None, target |-> 0,
     row |-> None, loaded |-> {}, code |-> 0]

\* ProjectUpdate requests (dict(exclude_unset=True)): any subset of the five
\* fields, an explicit null included
ProjectUpdateValues ==
    [title |-> {"B", None}, description |-> {"e"}, tags |-> {"[x]"},
     budget |-> {"20"}, status |-> {"closed", None}]
ProjectUpdates == Patches(ProjectUpdateValues)

\* rows a project can hold after create_project and update_project by its owner
ProjectRows ==
    [client_id : Clients, title : {"A", "B"}, description : {"d"},
     tags : {"[]"}, budget : {"10", "20"}, status : {"open", "closed"}]
CreatedProjectRows == { NewProject(u, body) : u \in Clients, body \in ProjectBodies }

\* rows a task can hold after create_task, claim_task and update_task
TaskRows(P) ==
    [project_id : P, title : {"T", "T2"}, payout : {"5"},
     status : {"open", "assigned", "submitted"}, assignee_id : {None} \cup Workers]
CreatedTaskRows(P) == UNION { { NewTask(body) : body \in TaskBodies(p) } : p \in P }

\* the tables over a subset of the ids in which every row is as created, but
\* for at most one row, which is any of the rows given
OneRowTables(ids, created, rows) ==
    UNION { [D -> created] \cup
            UNION { { [j \in D |-> IF j = i THEN r ELSE g[j]] :
                        r \in rows, g \in [D -> created] } : i \in D } :
            D \in SUBSET ids }

\* project p as created by the first client (odd p) or the second (even p)
OwnedProjects ==
    [p \in ProjectIds |->
        NewProject(IF p % 2 = 1 THEN "c1" ELSE "c2", CHOOSE b \in ProjectBodies : TRUE)]

\* the users that have notifications
NotificationOwners == {"c1", "w1"}

\* notification n was created at time n by the external trigger
NotificationTables ==
    UNION { { [n \in D |-> [user_id |-> f[n].user_id, read |-> f[n].read,
                            created_at |-> n]] :
                f \in [D -> [user_id : NotificationOwners, read : BOOLEAN]] } :
            D \in SUBSET NotifIds }

\* the stores requests are checked against: each is a store the handlers can
\* leave behind (foreign keys hold, owners are clients, ids are not reused)
InitStore ==
    \/ /\ projects \in OneRowTables(ProjectIds, CreatedProjectRows, ProjectRows)
       /\ \E p \in DOMAIN projects, D \in {{}, TaskIds} :
             tasks \in [D -> CreatedTaskRows({p})]
       /\ notifications = EmptyTable
    \/ /\ projects = OwnedProjects
       /\ tasks \in OneRowTables(TaskIds, CreatedTaskRows(ProjectIds), TaskRows(ProjectIds))
       /\ notifications = EmptyTable
    \/ /\ projects = EmptyTable
       /\ tasks = EmptyTable
       /\ notifications \in NotificationTables

Init ==
    /\ InitStore
    /\ uuids = [project |-> MaxOf(DOMAIN projects), task |-> MaxOf(DOMAIN tasks)]
    /\ resp = NoResponse
    /\ sessions = [r \in 1..MaxReqs |-> IdleSession]

\* one request, by any user with any input, against the store
Fresh == resp = NoResponse

Next ==
    \/ Fresh /\ \E u \in Users, body \in ProjectBodies : create_project(u, body)
    \/ Fresh /\ \E u \in Users, skip \in {0, 1}, limit \in {1, 100} :
          get_projects(u, skip, limit)
    \/ Fresh /\ \E u \in Users, p \in ProjectIds : get_project(u, p)
    \/ Fresh /\ \E u \in Users, p \in ProjectIds, patch \in ProjectUpdates :
          update_project(u, p, patch)
    \/ Fresh /\ \E u \in Users, p \in ProjectIds : delete_project(u, p)
    \/ Fresh /\ \E u \in Users, p \in ProjectIds : \E body \in TaskBodies(p) :
          create_task(u, body)
    \/ Fresh /\ \E u \in Users, p \in {0} \cup ProjectIds, s \in {None, "open", "assigned"},
          skip \in {0, 1}, limit \in {1, 100} :
          get_tasks(u, p, s, skip, limit)
    \/ Fresh /\ \E u \in Users : get_my_tasks(u)
    \/ Fresh /\ \E u \in Users, t \in TaskIds : get_task(u, t)
    \/ Fresh /\ \E u \in Users, t \in TaskIds, patch \in TaskUpdates :
          update_task(u, t, patch)
    \/ Fresh /\ \E u \in Users, t \in TaskIds : claim_task(u, t)
    \/ Fresh /\ \E u \in Users, t \in TaskIds : delete_task(u, t)
    \/ Fresh /\ \E u \in Users, skip \in {0, 1}, limit \in {1, 100}, unread_only \in BOOLEAN :
          get_notifications(u, skip, limit, unread_only)
    \/ Fresh /\ \E u \in Users, n \in NotifIds : mark_notification_read(u, n)
    \/ Fresh /\ \E u \in Users : mark_all_notifications_read(u)
    \/ Fresh /\ \E u \in Users, n \in NotifIds : delete_notification(u, n)

Spec == Init /\ [][Next]_vars

\* ---------------------------------------------------------------- requests in flight
\* Each request has its own session: what it read, and what it will write at
\* commit.  The committed tables are all that requests share.  A handler runs
\* from one `await` on the database to the next without interruption.

Session(pc, op, actor, target, row, loaded, code) ==
    [pc |-> pc, op |-> op, actor |-> actor, target |-> target,
     row |-> row, loaded |-> loaded, code |-> code]

\* the handler raised or returned: the request is answered with code
Done(s, code) == [s EXCEPT !.pc = "done", !.code = code]

\* requests are numbered in order of arrival
Arrives(r) ==
    /\ sessions[r].pc = "idle"
    /\ \A q \in 1..(r - 1) : sessions[q].pc # "idle"

\* claim_task up to `await db.commit()`: role check, SELECT, precondition,
\* the two assignments on the loaded row
claim_task_begin(r, u, t) ==
    /\ Arrives(r)
    /\ sessions' = [sessions EXCEPT ![r] =
         LET s == Session("commit", "claim_task", u, t, None, {}, 0) IN
         IF role(u) # "worker" THEN Done(s, FORBIDDEN)
         ELSE IF t \notin DOMAIN tasks THEN Done(s, NOT_FOUND)
         ELSE IF ~claim_task_available(tasks[t]) THEN Done(s, BAD_REQUEST)
         ELSE [s EXCEPT !.row = claim_task_assign(tasks[t], u)]]
    /\ UNCHANGED <<projects, tasks, notifications, uuids, resp>>

\* the UPDATE of claim_task's flush: the two changed columns, by primary key
claim_task_flush(table, t, row) ==
    Put(table, t, [table[t] EXCEPT !.assignee_id = row.assignee_id,
                                   !.status = row.status])

\* claim_task's `await db.commit()`: UPDATE ... WHERE id = t, COMMIT; an UPDATE
\* that matches no row raises (StaleDataError) and nothing is committed
claim_task_commit(r) ==
    LET s == sessions[r] IN
    /\ s.pc = "commit" /\ s.op = "claim_task"
    /\ IF s.target \in DOMAIN tasks
       THEN /\ tasks' = claim_task_flush(tasks, s.target, s.row)
            /\ sessions' = [sessions EXCEPT ![r] = Done(s, OK)]
       ELSE /\ tasks' = tasks
            /\ sessions' = [sessions EXCEPT ![r] = Done(s, SERVER_ERROR)]
    /\ UNCHANGED <<projects, notifications, uuids, resp>>

\* create_task up to `await db.commit()`: SELECT project, ownership check, db.add
create_task_begin(r, u, body) ==
    /\ Arrives(r)
    /\ sessions' = [sessions EXCEPT ![r] =
         LET s == Session("commit", "create_task", u, body.project_id, None, {}, 0) IN
         IF body.project_id \notin DOMAIN projects THEN Done(s, NOT_FOUND)
         ELSE IF projects[body.project_id].client_id # u THEN Done(s, FORBIDDEN)
         ELSE [s EXCEPT !.row = NewTask(body)]]
    /\ UNCHANGED <<projects, tasks, notifications, uuids, resp>>

\* mutant: tasks.project_id is a plain column, the INSERT is not checked
ForeignKeyHolds_unchecked(row, projectTable) == TRUE

\* tasks.project_id = ForeignKey("projects.id"): the INSERT needs the project row
ForeignKeyHolds(row, projectTable) == row.project_id \in DOMAIN projectTable

\* create_task's `await db.commit()`: INSERT, COMMIT; a foreign key violation
\* raises (IntegrityError) and nothing is committed
create_task_commit(r) ==
    LET s == sessions[r] IN
    /\ s.pc = "commit" /\ s.op = "create_task"
    /\ IF ForeignKeyHolds(s.row, projects)
       THEN /\ tasks' = Put(tasks, uuids.task + 1, s.row)
            /\ uuids' = [uuids EXCEPT !.task = @ + 1]
            /\ sessions' = [sessions EXCEPT ![r] = Done(s, OK)]
       ELSE /\ UNCHANGED <<tasks, uuids>>
            /\ sessions' = [sessions EXCEPT ![r] = Done(s, SERVER_ERROR)]
    /\ UNCHANGED <<projects, notifications, resp>>

\* delete_project up to `await db.delete(project)`: SELECT, ownership check
delete_project_begin(r, u, p) ==
    /\ Arrives(r)
    /\ sessions' = [sessions EXCEPT ![r] =
         LET s == Session("delete", "delete_project", u, p, None, {}, 0) IN
         IF p \notin DOMAIN projects THEN Done(s, NOT_FOUND)
         ELSE IF projects[p].client_id # u THEN Done(s, FORBIDDEN)
         ELSE s]
    /\ UNCHANGED <<projects, tasks, notifications, uuids, resp>>

\* `await db.delete(project)`: the delete cascade loads project.tasks and marks
\* each loaded task deleted in the session
delete_project_cascade(r) ==
    LET s == sessions[r] IN
    /\ s.pc = "delete"
    /\ sessions' = [sessions EXCEPT ![r] =
         [s EXCEPT !.pc = "commit", !.loaded = CascadeTasks(tasks, s.target)]]
    /\ UNCHANGED <<projects, tasks, notifications, uuids, resp>>

\* mutant: the relationship has no delete cascade and the store no foreign key
delete_project_flush_no_cascade(p, loaded) ==
    [code |-> OK, projects |-> Remove(projects, {p}), tasks |-> tasks]

\* the DELETEs of delete_project's flush in one transaction: the loaded tasks,
\* then the project; a task still referring to the project makes the DELETE of
\* the project fail (foreign key) and the transaction is rolled back
delete_project_flush(p, loaded) ==
    LET left == Remove(tasks, loaded) IN
    IF CascadeTasks(left, p) = {}
    THEN [code |-> OK, projects |-> Remove(projects, {p}), tasks |-> left]
    ELSE [code |-> SERVER_ERROR, projects |-> projects, tasks |-> tasks]

\* delete_project's `await db.commit()`
delete_project_commit(r) ==
    LET s == sessions[r]
        f == delete_project_flush(s.target, s.loaded) IN
    /\ s.pc = "commit" /\ s.op = "delete_project"
    /\ projects' = f.projects
    /\ tasks' = f.tasks
    /\ sessions' = [sessions EXCEPT ![r] = Done(s, f.code)]
    /\ UNCHANGED <<notifications, uuids, resp>>

\* the request dies before its commit (crash, disconnect): the session is
\* closed without commit and no response is sent
ABORTED == 0
abort(r) ==
    /\ sessions[r].pc \in {"delete", "commit"}
    /\ sessions' = [sessions EXCEPT ![r] = Done(@, ABORTED)]
    /\ UNCHANGED <<projects, tasks, notifications, uuids, resp>>

\* the stores the concurrent requests start from: every project exists, each
\* task is absent, open as created, or claimed by w1
InitConcStore ==
    /\ projects = OwnedProjects
    /\ tasks \in Tables(TaskIds,
            { r \in TaskRows({1}) :
                /\ r.title = "T"
                /\ <<r.status, r.assignee_id>> \in {<<"open", None>>, <<"assigned", "w1">>} })
    /\ notifications = EmptyTable

InitConc ==
    /\ InitConcStore
    /\ uuids = [project |-> MaxOf(DOMAIN projects), task |-> MaxOf(DOMAIN tasks)]
    /\ resp = NoResponse
    /\ sessions = [r \in 1..MaxReqs |-> IdleSession]

\* claims by workers, task creation and project deletion by clients, in flight
\* together
NextConc ==
    \/ \E r \in 1..MaxReqs, u \in Workers, t \in TaskIds : claim_task_begin(r, u, t)
    \/ \E r \in 1..MaxReqs : claim_task_commit(r)
    \/ \E r \in 1..MaxReqs, u \in Clients, p \in ProjectIds : \E body \in TaskBodies(p) :
          create_task_begin(r, u, body)
    \/ \E r \in 1..MaxReqs : create_task_commit(r)
    \/ \E r \in 1..MaxReqs, u \in Clients, p \in ProjectIds : delete_project_begin(r, u, p)
    \/ \E r \in 1..MaxReqs : delete_project_cascade(r)
    \/ \E r \in 1..MaxReqs : delete_project_commit(r)
    \/ \E r \in 1..MaxReqs : abort(r)

SpecConc == InitConc /\ [][NextConc]_vars

\* the task lifecycle from the empty database, requests handled one after the other
InitEmpty ==
    /\ projects = EmptyTable
    /\ tasks = EmptyTable
    /\ notifications = EmptyTable
    /\ uuids = [project |-> 0, task |-> 0]
    /\ resp = NoResponse
    /\ sessions = [r \in 1..MaxReqs |-> IdleSession]

\* the users and the TaskUpdate requests of the lifecycle runs
LifecycleUsers == {"c1", "w1"}
LifecycleUpdates ==
    { p \in TaskUpdates :
        \/ DOMAIN p = {"status"} /\ p.status = "submitted"
        \/ DOMAIN p = {"assignee_id"} /\ p.assignee_id = None }

NextTask ==
    \/ \E u \in LifecycleUsers, body \in ProjectBodies : create_project(u, body)
    \/ \E u \in LifecycleUsers, p \in ProjectIds : \E body \in TaskBodies(p) :
          create_task(u, body)
    \/ \E u \in LifecycleUsers, t \in TaskIds, patch \in LifecycleUpdates :
          update_task(u, t, patch)
    \/ \E u \in LifecycleUsers, t \in TaskIds : claim_task(u, t)
    \/ \E u \in LifecycleUsers, t \in TaskIds : delete_task(u, t)

SpecTask == InitEmpty /\ [][NextTask]_vars

\* projects and their tasks from the empty database: every operation that
\* writes a project or a task, requests handled one after the other
OwnershipUsers == {"c1", "c2", "w1"}
OwnershipUpdates == { p \in ProjectUpdates : DOMAIN p = {"title"} /\ p.title = "B" }
OwnershipTaskUpdates == { p \in TaskUpdates : DOMAIN p = {"title"} /\ p.title = "T2" }

NextOwnership ==
    \/ \E u \in OwnershipUsers, body \in ProjectBodies : create_project(u, body)
    \/ \E u \in OwnershipUsers, p \in ProjectIds, patch \in OwnershipUpdates :
          update_project(u, p, patch)
    \/ \E u \in OwnershipUsers, p \in ProjectIds : delete_project(u, p)
    \/ \E u \in OwnershipUsers, p \in ProjectIds : \E body \in TaskBodies(p) :
          uuids.task < MaxOwnershipTasks /\ create_task(u, body)
    \/ \E u \in OwnershipUsers, t \in TaskIds, patch \in OwnershipTaskUpdates :
          update_task(u, t, patch)
    \/ \E u \in OwnershipUsers, t \in TaskIds : delete_task(u, t)

SpecOwnership == InitEmpty /\ [][NextOwnership]_vars

\* ================================================================ claims

\* ---- C1 (SpecConc) --------------------------------------------------------
\* C1: when two distinct workers claim the same task and one claim succeeds,
\* the other claim fails with 400 and the task is assigned to the winner
\* (exactly one of two concurrent claims on an open task succeeds).
FinishedClaim(r) ==
    /\ sessions[r].op = "claim_task"
    /\ sessions[r].pc = "done"
    /\ sessions[r].code # ABORTED
    /\ sessions[r].actor \in Workers

C1_ExactlyOneClaimSucceeds ==
    \A r1, r2 \in 1..MaxReqs :
        ( /\ r1 # r2
          /\ FinishedClaim(r1) /\ FinishedClaim(r2)
          /\ sessions[r1].target = sessions[r2].target
          /\ sessions[r1].actor # sessions[r2].actor
          /\ sessions[r1].code = 200 )
        => /\ sessions[r2].code = 400
           /\ sessions[r1].target \in DOMAIN tasks
                => tasks[sessions[r1].target].assignee_id = sessions[r1].actor

\* ---- C2 (Spec) ------------------------------------------------------------
ClaimOnUnavailable ==
    /\ resp'.op = "claim_task"
    /\ resp'.target \in DOMAIN tasks
    /\ \/ tasks[resp'.target].status # "open"
       \/ tasks[resp'.target].assignee_id # None

\* C2 as stated: claim_task on an existing task that is not open or already has
\* an assignee fails with 400 whoever the actor is, and changes nothing.
C2_UnavailableClaimIsBadRequest ==
    [][ClaimOnUnavailable => resp'.code = 400 /\ store' = store]_vars

\* C2 amended: claim_task on an existing task that is not open or already has
\* an assignee fails with 400 when the actor is a worker and with 403 when the
\* actor is not a worker, and changes nothing.
C2_UnavailableClaimFails ==
    [][ClaimOnUnavailable =>
          /\ resp'.code = IF resp'.actor \in Workers THEN 400 ELSE 403
          /\ store' = store]_vars

C2_Witness ==
    /\ resp.op = "claim_task" /\ resp.code = 400
    /\ resp.target \in DOMAIN tasks
    /\ tasks[resp.target].status = "open"
    /\ tasks[resp.target].assignee_id # None

\* ---- C3 (SpecConc) --------------------------------------------------------
\* C3: a claim_task commit that succeeds finds the task open and unassigned and
\* leaves it assigned to the caller; it never replaces an assignee already set.
C3_ClaimNeverReplacesAssignee ==
    [][\A r \in 1..MaxReqs :
          ( /\ sessions[r].op = "claim_task" /\ sessions[r].pc = "commit"
            /\ sessions'[r].pc = "done" /\ sessions'[r].code = 200 )
          => /\ tasks[sessions[r].target].status = "open"
             /\ tasks[sessions[r].target].assignee_id = None
             /\ tasks'[sessions[r].target].assignee_id = sessions[r].actor
             /\ tasks'[sessions[r].target].status = "assigned"]_vars

\* ---- C4 (SpecConc) --------------------------------------------------------
\* C4: every step leaves each project either present with all of its tasks or
\* absent with all of its tasks; a delete_project that succeeds leaves the
\* project and its tasks absent; an abort before commit changes nothing.
C4_DeleteProjectAtomic ==
    [][ /\ \A p \in DOMAIN projects :
             LET ts == { t \in DOMAIN tasks : tasks[t].project_id = p } IN
             \/ p \in DOMAIN projects' /\ ts \subseteq DOMAIN tasks'
             \/ p \notin DOMAIN projects' /\ ts \cap DOMAIN tasks' = {}
        /\ \A r \in 1..MaxReqs :
             /\ ( /\ sessions[r].op = "delete_project" /\ sessions[r].pc = "commit"
                  /\ sessions'[r].code = 200 )
                => /\ sessions[r].target \notin DOMAIN projects'
                   /\ \A t \in DOMAIN tasks' :
                        tasks'[t].project_id # sessions[r].target
             /\ ( /\ sessions[r].pc # "done"
                  /\ sessions'[r].pc = "done" /\ sessions'[r].code = ABORTED )
                => store' = store ]_vars

C4_Witness ==
    \E r \in 1..MaxReqs :
        /\ sessions[r].op = "delete_project" /\ sessions[r].code = 200
        /\ Cardinality(sessions[r].loaded) = 2
        /\ sessions[r].target \notin DOMAIN projects
        /\ sessions[r].loaded \cap DOMAIN tasks = {}

\* ---- C5 (Spec) ------------------------------------------------------------
\* C5: a request answered 404, 403 or 400 leaves every table as it was.
C5_ErrorsLeaveStoreUnchanged ==
    [][resp'.code \in {400, 403, 404} => store' = store]_vars

C5_Witness ==
    /\ resp.op = "delete_task" /\ resp.code = 403
    /\ resp.target \in DOMAIN tasks
    /\ DOMAIN projects # {}

\* ---- C6 (SpecTask) --------------------------------------------------------
AssigneeIffNotOpen(row) == (row.assignee_id # None) <=> (row.status # "open")

\* C6 as stated: every stored task has an assignee iff its status is not open.
C6_AssigneeIffNotOpen ==
    \A t \in DOMAIN tasks : AssigneeIffNotOpen(tasks[t])

\* C6 amended: every task that create_task or claim_task writes has an assignee
\* iff its status is not open, and delete_task writes no remaining task (the
\* update_task path can set status and assignee_id independently).
C6_ClaimPathKeepsAssigneeIffNotOpen ==
    [][resp'.op \in {"create_task", "claim_task", "delete_task"} =>
          \A t \in DOMAIN tasks' :
              (t \notin DOMAIN tasks \/ tasks'[t] # tasks[t])
              => AssigneeIffNotOpen(tasks'[t])]_vars

C6_Witness ==
    /\ resp.op = "claim_task" /\ resp.code = 200
    /\ tasks[resp.target].assignee_id = resp.actor
    /\ tasks[resp.target].status = "assigned"

\* ---- C7 (Spec) ------------------------------------------------------------
\* C7: every task a worker gets from the task list is open, unless it is
\* assigned to that worker.
C7_WorkerListsOnlyOpenTasks ==
    (resp.op = "get_tasks" /\ resp.actor \in Workers)
    => \A t \in resp.rows :
          tasks[t].status = "open" \/ tasks[t].assignee_id = resp.actor

C7_Witness ==
    /\ resp.op = "get_tasks" /\ resp.actor \in Workers
    /\ resp.rows # {}
    /\ \E t \in DOMAIN tasks : tasks[t].status # "open" /\ t \notin resp.rows

\* ---- C8 (Spec) ------------------------------------------------------------
MayUpdateTask(u, t) ==
    \/ projects[tasks[t].project_id].client_id = u
    \/ u \in Workers /\ tasks[t].assignee_id = u

\* C8: update_task changes a task only for the client owning its project or the
\* worker it is assigned to; for any other actor it answers 403 and the task
\* table is unchanged.
C8_UpdateTaskOnlyByOwnerOrAssignee ==
    [][(resp'.op = "update_task" /\ resp'.target \in DOMAIN tasks) =>
          /\ tasks' # tasks => MayUpdateTask(resp'.actor, resp'.target)
          /\ ~MayUpdateTask(resp'.actor, resp'.target)
                => resp'.code = 403 /\ tasks' = tasks]_vars

C8_Witness ==
    /\ resp.op = "update_task" /\ resp.code = 403
    /\ resp.actor \in Workers
    /\ resp.target \in DOMAIN tasks
    /\ tasks[resp.target].assignee_id \in Workers \ {resp.actor}
    /\ DOMAIN resp.body # {}

\* ---- C9 (Spec) ------------------------------------------------------------
UpdateByOwner ==
    /\ resp'.op = "update_project"
    /\ resp'.target \in DOMAIN projects
    /\ projects[resp'.target].client_id = resp'.actor

\* the fields present in the request hold the given values, all other fields
\* of the project, every other project and every task are as before
PatchedExactly ==
    /\ DOMAIN projects' = DOMAIN projects
    /\ \A f \in DOMAIN projects[resp'.target] :
          projects'[resp'.target][f] =
             IF f \in DOMAIN resp'.body THEN resp'.body[f]
             ELSE projects[resp'.target][f]
    /\ \A p \in DOMAIN projects \ {resp'.target} : projects'[p] = projects[p]
    /\ tasks' = tasks

\* C9 as stated: update_project by the owner overwrites exactly the fields
\* present in the request.
C9_UpdateProjectPatchesExactly ==
    [][UpdateByOwner => PatchedExactly]_vars

\* C9 amended: update_project by the owner overwrites exactly the fields
\* present in the request, unless the request gives null for title,
\* description or budget: then it is answered 500 and nothing is changed.
C9_UpdateProjectPatchesExactlyUnlessNull ==
    [][UpdateByOwner =>
          IF \E f \in DOMAIN resp'.body \cap {"title", "description", "budget"} :
                resp'.body[f] = None
          THEN resp'.code = 500 /\ store' = store
          ELSE PatchedExactly]_vars

C9_Witness ==
    /\ resp.op = "update_project" /\ resp.code = 200
    /\ DOMAIN resp.body = {"budget"}
    /\ projects[resp.target].budget = "20"
    /\ projects[resp.target].title = "A"
    /\ DOMAIN projects = ProjectIds

\* ---- C10 (Spec) -----------------------------------------------------------
\* C10: mark_all_notifications_read reports the number of the caller's unread
\* notifications, leaves all of the caller's notifications read, and changes
\* nothing else, in one step.
C10_MarkAllRead ==
    [][resp'.op = "mark_all_notifications_read" =>
          /\ resp'.count = Cardinality({ n \in DOMAIN notifications :
                              /\ notifications[n].user_id = resp'.actor
                              /\ ~notifications[n].read })
          /\ DOMAIN notifications' = DOMAIN notifications
          /\ \A n \in DOMAIN notifications :
                IF notifications[n].user_id = resp'.actor
                THEN notifications'[n] = [notifications[n] EXCEPT !.read = TRUE]
                ELSE notifications'[n] = notifications[n]
          /\ projects' = projects /\ tasks' = tasks]_vars

C10_Witness ==
    /\ resp.op = "mark_all_notifications_read" /\ resp.count = 2
    /\ \E n \in DOMAIN notifications :
          notifications[n].user_id # resp.actor /\ ~notifications[n].read
    /\ \A n \in DOMAIN notifications :
          notifications[n].user_id = resp.actor => notifications[n].read

C12_TasksReferToProjects ==
    \A t \in DOMAIN tasks : tasks[t].project_id \in DOMAIN projects

C12_Witness ==
    \E r1, r2 \in 1..MaxReqs :
        /\ sessions[r1].op = "create_task" /\ sessions[r1].pc = "done"
        /\ sessions[r1].code = 500
        /\ sessions[r2].op = "delete_project" /\ sessions[r2].code = 200
        /\ sessions[r2].target = sessions[r1].target
        /\ sessions[r1].target \notin DOMAIN projects

\* ---- C13 (SpecOwnership) --------------------------------------------------
\* C13: a project appears only through create_project, with the caller as its
\* client_id and the caller a client; a stored project keeps its client_id and
\* a stored task its project_id; and no create_task, update_project,
\* delete_project or delete_task by a worker is answered 200.
C13_OwnershipFixed ==
    [][ /\ \A p \in DOMAIN projects' :
             IF p \in DOMAIN projects
             THEN projects'[p].client_id = projects[p].client_id
             ELSE /\ resp'.op = "create_project"
                  /\ projects'[p].client_id = resp'.actor
                  /\ resp'.actor \in Clients
        /\ \A t \in DOMAIN tasks' \cap DOMAIN tasks :
             tasks'[t].project_id = tasks[t].project_id
        /\ ( /\ resp'.op \in {"create_task", "update_project",
                               "delete_project", "delete_task"}
             /\ resp'.code = 200 )
           => resp'.actor \notin Workers ]_vars

C13_Witness ==
    /\ resp.op = "delete_task" /\ resp.code = 403
    /\ resp.actor \in Workers
    /\ resp.target \in DOMAIN tasks
    /\ tasks[resp.target].title = "T2"
    /\ projects[tasks[resp.target].project_id].client_id \in Clients
    /\ projects[tasks[resp.target].project_id].title = "B"

====
